---- MODULE Spec2Model ----
(***************************************************************************)
(* Model of the agentic templates of master-template:                      *)
(*   src/templates/agentic/prompt-versioning.ts  (PromptRegistry,          *)
(*                                                 PromptExperiment)       *)
(*   src/templates/agentic/cost-tracking.ts      (CostTracker,             *)
(*                                                 BudgetManager)          *)
(* Numbers the code keeps as floats are kept exact here: weights and the   *)
(* hash value in thousandths, rates and averages as fractions n/d, money   *)
(* in units of 0.0001 USD, thresholds in percent.                          *)
(***************************************************************************)
EXTENDS Integers, Sequences, FiniteSets, TLC

VARIABLES
  \* ---- PromptRegistry / PromptExperiment
  prompts,        \* PromptRegistry.prompts[ExperimentName]: version -> content
  created,        \* the experiment object exists (createExperiment succeeded)
  control,        \* config.control
  variants,       \* config.variants: sequence of [version, weight]
  metrics,        \* PromptExperiment.metrics: version -> ExperimentMetrics
  assignments,    \* PromptExperiment.assignments: userId -> version
  isActive,       \* PromptExperiment.isActive
  sess,           \* per request handler: the caller whose first resolution it is about to make
  ret,            \* what the getPrompt call of the last step returned (NoReturn after any other step)
  firstResolved,  \* history: the version of each caller's first resolution
  freshGot,       \* history: what the first resolutions begun by the request handlers got
  graduatedTo,    \* history: the version of the last graduate() call
  nReports,       \* history: number of recordMetrics calls that found an assignment
  reported,       \* history: per version, the number and the sums of the values reported
  \* ---- CostTracker / BudgetManager
  constructed,    \* the CostTracker and its BudgetManager exist
  now,            \* the clock, in days (day 0 is Saturday 2026-05-30)
  records,        \* CostTracker.records
  budgets,        \* BudgetManager.budgets: the limits that are set
  alertsOn,       \* BudgetManager.alerts is not null (its thresholds are Thresholds)
  alertsSent,     \* BudgetManager.alertsSent: keys <<period, threshold>>
  calls,          \* the checkBudget calls in flight: where each stands and what it holds
  res,            \* how the checkBudget call that ended in the last step ended (NoResult after any other step)
  firedEpoch,     \* history: per key, onAlert invocations since the period's last reset
  delivered,      \* history: keys whose onAlert completed since the period's last reset
  seen,           \* history: whether resetAlerts has been called and whether onAlert has failed
  \* ---- RateLimiter
  limits,         \* RateLimiter.limits: {requests, windowMs}, empty before construction
  clock,          \* Date.now(), in ms
  requests,       \* RateLimiter.requests: key -> sequence of timestamps
  pending,        \* per caller: the key its last checkLimit allowed and it has not recorded yet
  chk,            \* the result of the checkLimit call of the last step (NoCheck after any other step)
  waiter,         \* the waitForSlot call that is suspended, if any
  woke,           \* the waitForSlot call that resolved in the last step (NoWake after any other step)
  unadmitted,     \* history: some recordRequest was made without an allowed checkLimit before it
  \* ---- getWinner / isSignificant
  stat,           \* the result of the getWinner or isSignificant call of the last step
  \* ---- PromptRegistry.render
  rnd,            \* the result of the render call of the last step
  \* ---- CostTracker ledger
  warnings,       \* number of console.warn calls made by calculateCost
  led             \* the result of the record, cleanup or aggregate read of the last step

budgetVars == <<constructed, now, records, budgets, alertsOn, alertsSent, calls, res,
                firedEpoch, delivered, seen>>

expVars == <<prompts, created, control, variants, metrics, assignments, isActive,
             sess, ret, firstResolved, freshGot, graduatedTo, nReports, reported>>

limiterVars == <<limits, clock, requests, pending, chk, waiter, woke, unadmitted>>

statVars == <<stat, rnd>>

ledgerVars == <<warnings, led>>

vars == <<expVars, budgetVars, limiterVars, statVars, ledgerVars>>

-----------------------------------------------------------------------------
(* Bounds of the model *)

MaxImpressions == 2
MaxConversions == 1
MaxReports == 2
MaxRecords == 2
MaxDay == 1
MaxWarnings == 2
MaxStored == 4
MaxTime == 1700

-----------------------------------------------------------------------------
(* Values *)

None == "none"

ExperimentName == "greeting"

Versions == {"v1", "v2", "v3"}

Callers == {"carol", "u1"}

Sessions == {"s1", "s2"}

RegisterOrder(v) == CASE v = "v1" -> 1 [] v = "v2" -> 2 [] OTHER -> 3

Lit(s) == [ph |-> FALSE, s |-> s]
Ph(s) == [ph |-> TRUE, s |-> s]

\* The content registered for each version: text and {{identifier}} placeholders.
Content(v) ==
  CASE v = "v1" -> <<Lit("Hello, how can I help?")>>
    [] v = "v2" -> <<Lit("Hi "), Ph("name"), Lit("! What can I do for you today?")>>
    [] OTHER    -> <<Lit("Hey "), Ph("name"), Lit(", ask me about "), Ph("topic")>>

\* The variables argument of getPrompt: absent, or a record of values.
\* The variables are the entries of the object in insertion order; a value is
\* text in which {{identifier}} placeholders are told apart.
VarChoices ==
  { [given |-> FALSE, vars |-> <<>>],
    [given |-> TRUE,  vars |-> <<[key |-> "name", value |-> <<Lit("Ann")>>]>>],
    [given |-> TRUE,  vars |-> <<[key |-> "name", value |-> <<Lit("Ann")>>],
                                 [key |-> "topic", value |-> <<Lit("billing")>>]>>] }

\* The variables passed to render directly.
RenderVarChoices ==
  { <<>>,
    <<[key |-> "name", value |-> <<Lit("Ann")>>]>>,
    <<[key |-> "name", value |-> <<Lit("Ann")>>],
      [key |-> "topic", value |-> <<Lit("billing")>>]>>,
    <<[key |-> "name", value |-> <<Lit("Ann")>>],
      [key |-> "unused", value |-> <<Lit("x")>>]>>,
    <<[key |-> "name", value |-> <<Ph("topic")>>],
      [key |-> "topic", value |-> <<Lit("billing")>>]>>,
    <<[key |-> "topic", value |-> <<Lit("billing")>>],
      [key |-> "name", value |-> <<Ph("topic")>>]>>,
    <<[key |-> "name", value |-> <<Lit("see "), Ph("docs")>>]>>,
    <<[key |-> "name", value |-> <<Lit("$&")>>]>>,
    <<[key |-> "name", value |-> <<Lit("US"), Lit("$$")>>]>> }

\* Weights in thousandths.
WeightChoices == {0, 500}

ConfigChoices ==
  { [control |-> "v1", variants |-> <<[version |-> "v2", weight |-> 500]>>],
    [control |-> "v1", variants |-> <<[version |-> "v2", weight |-> 500],
                                      [version |-> "v3", weight |-> 500]>>] }

\* recordMetrics data
FirstReport == [latencyMs |-> 100, tokens |-> 10, cost |-> 1]

MetricsData == { FirstReport, [latencyMs |-> 200, tokens |-> 30, cost |-> 2] }

-----------------------------------------------------------------------------
(* Exact fractions n/d, d >= 0.  d = 0 is what a float division by zero     *)
(* gives: n = 1 Infinity, n = -1 -Infinity, n = 0 NaN.                      *)

Abs(x) == IF x < 0 THEN -x ELSE x

Sign(x) == IF x < 0 THEN -1 ELSE IF x > 0 THEN 1 ELSE 0

RECURSIVE Gcd(_, _)
Gcd(a, b) == IF b = 0 THEN a ELSE Gcd(b, a % b)

Frac(n, d) ==
  IF d = 0 THEN [n |-> Sign(n), d |-> 0]
  ELSE IF n = 0 THEN [n |-> 0, d |-> 1]
  ELSE LET g == Gcd(Abs(n), d) IN [n |-> n \div g, d |-> d \div g]

Zero == Frac(0, 1)

\* Arithmetic on finite fractions (d > 0).
FracAdd(a, b) == Frac(a.n * b.d + b.n * a.d, a.d * b.d)
FracSub(a, b) == Frac(a.n * b.d - b.n * a.d, a.d * b.d)
FracMul(a, b) == Frac(a.n * b.n, a.d * b.d)
FracDivInt(a, k) == Frac(a.n, a.d * k)
FracLess(a, b) == a.n * b.d < b.n * a.d

-----------------------------------------------------------------------------
(* PromptRegistry *)

\* PromptRegistry.get: the content, if the version is registered
Registered(p, v) == v \in DOMAIN p

\* What String.replace inserts for a replacement string: `$&` stands for the
\* matched text, here {{key}}, and `$$` for one dollar sign.
Replacement(key, value) ==
  [i \in DOMAIN value |->
     IF value[i] = Lit("$&") THEN Ph(key)
     ELSE IF value[i] = Lit("$$") THEN Lit("$")
     ELSE value[i]]

\* rendered.replace(new RegExp(`\{\{${key}\}\}`, 'g'), value)
RECURSIVE Splice(_, _, _)
Splice(content, key, repl) ==
  IF content = <<>> THEN <<>>
  ELSE (IF Head(content).ph /\ Head(content).s = key THEN repl ELSE <<Head(content)>>)
       \o Splice(Tail(content), key, repl)

\* The loop over Object.entries(variables) from entry i on.
RECURSIVE ReplaceAll(_, _, _)
ReplaceAll(content, entries, i) ==
  IF i > Len(entries) THEN content
  ELSE ReplaceAll(Splice(content, entries[i].key,
                         Replacement(entries[i].key, entries[i].value)),
                  entries, i + 1)

\* PromptRegistry.render: replace every {{key}} with the supplied value, one
\* entry after the other, then fail if a placeholder is found in the result.
render(p, v, vs) ==
  IF ~Registered(p, v) THEN [ok |-> FALSE, error |-> "NotFound", content |-> <<>>]
  ELSE LET rendered == ReplaceAll(p[v], vs, 1) IN
       IF \E i \in DOMAIN rendered : rendered[i].ph
         THEN [ok |-> FALSE, error |-> "MissingVariables", content |-> <<>>]
         ELSE [ok |-> TRUE, error |-> None, content |-> rendered]

\* getPrompt's content expression: variables ? render(...) : get(...)!.content
ContentOf(p, v, choice) ==
  IF choice.given THEN render(p, v, choice.vars)
  ELSE IF Registered(p, v) THEN [ok |-> TRUE, error |-> None, content |-> p[v]]
  ELSE [ok |-> FALSE, error |-> "TypeError", content |-> <<>>]

-----------------------------------------------------------------------------
(* PromptExperiment *)

initializeMetrics ==
  [impressions |-> 0, conversions |-> 0, conversionRate |-> Zero,
   avgLatencyMs |-> Zero, avgTokens |-> Zero, totalCost |-> 0]

\* md5(userId + name), first 8 hex digits / 0xffffffff, in thousandths (floor):
\*   carolgreeting -> 6a8e1698 -> 0.41623..., u1greeting -> fc49db8e -> 0.98550...
HashMilli(userId) ==
  CASE userId = "carol" -> 416
    [] OTHER            -> 985

\* A plausible slip: each variant's own weight is compared, not the running sum.
RECURSIVE WalkOwnWeight(_, _, _, _, _)
WalkOwnWeight(vs, ctl, hashNum, i, cumulative) ==
  IF i > Len(vs) THEN ctl
  ELSE IF hashNum < vs[i].weight THEN vs[i].version
  ELSE WalkOwnWeight(vs, ctl, hashNum, i + 1, cumulative + vs[i].weight)

\* The weight walk of assignVariant from variant i with the weights before i
\* summed in cumulative.
RECURSIVE Walk(_, _, _, _, _)
Walk(vs, ctl, hashNum, i, cumulative) ==
  IF i > Len(vs) THEN ctl
  ELSE IF hashNum < cumulative + vs[i].weight THEN vs[i].version
  ELSE Walk(vs, ctl, hashNum, i + 1, cumulative + vs[i].weight)

\* A plausible slip: no look-up of the existing assignment.
assignVariantNoCache(asg, vs, ctl, userId) ==
  LET v == Walk(vs, ctl, HashMilli(userId), 1, 0)
  IN [version |-> v,
      assignments |-> [u \in DOMAIN asg \cup {userId} |->
                         IF u = userId THEN v ELSE asg[u]]]

assignVariant(asg, vs, ctl, userId) ==
  IF userId \in DOMAIN asg
    THEN [version |-> asg[userId], assignments |-> asg]
    ELSE LET v == Walk(vs, ctl, HashMilli(userId), 1, 0)
         IN [version |-> v,
             assignments |-> [u \in DOMAIN asg \cup {userId} |->
                                IF u = userId THEN v ELSE asg[u]]]

recordImpression(m, version) ==
  IF version \in DOMAIN m
    THEN [m EXCEPT ![version].impressions = @ + 1]
    ELSE m

RECURSIVE SumOver(_, _)
SumOver(f, S) ==
  IF S = {} THEN 0
  ELSE LET x == CHOOSE y \in S : TRUE IN f[x] + SumOver(f, S \ {x})

TotalImpressions == SumOver([v \in DOMAIN metrics |-> metrics[v].impressions], DOMAIN metrics)
TotalConversions == SumOver([v \in DOMAIN metrics |-> metrics[v].conversions], DOMAIN metrics)

NoReturn == [caller |-> None, version |-> None, active |-> FALSE, threw |-> FALSE,
             racer |-> FALSE, cached |-> FALSE]

\* No value reported for any version.
NoReports == [v \in Versions |-> [n |-> 0, latencyMs |-> 0, tokens |-> 0]]

ExpInit ==
  /\ prompts = <<>>
  /\ created = FALSE
  /\ control = None
  /\ variants = <<>>
  /\ metrics = <<>>
  /\ assignments = <<>>
  /\ isActive = FALSE
  /\ sess = [s \in Sessions |-> None]
  /\ ret = NoReturn
  /\ firstResolved = [u \in Callers |-> None]
  /\ freshGot = [u \in Callers |-> [n |-> 0, versions |-> {}]]
  /\ graduatedTo = None
  /\ nReports = 0
  /\ reported = NoReports

\* PromptRegistry.register(ExperimentName, v, Content(v)); the versions are
\* registered in the order v1, v2, v3.
Register(v) ==
  /\ \A w \in Versions : RegisterOrder(w) < RegisterOrder(v) => Registered(prompts, w)
  /\ prompts' = [x \in DOMAIN prompts \cup {v} |-> Content(x)]
  /\ ret' = NoReturn
  /\ UNCHANGED <<created, control, variants, metrics, assignments, isActive,
                 sess, firstResolved, freshGot, graduatedTo, nReports, reported>>
  /\ UNCHANGED <<budgetVars, limiterVars, statVars, ledgerVars>>

\* The validation of createExperiment: control and every variant are registered.
VersionsExist(p, cfg) ==
  /\ Registered(p, cfg.control)
  /\ \A i \in DOMAIN cfg.variants : Registered(p, cfg.variants[i].version)

\* A plausible slip: the experiment is created without the validation.
createExperimentUnvalidated(cfg) ==
  /\ created' = TRUE
  /\ control' = cfg.control
  /\ variants' = cfg.variants
  /\ metrics' = [v \in {cfg.control} \cup
                         {cfg.variants[i].version : i \in DOMAIN cfg.variants}
                   |-> initializeMetrics]
  /\ assignments' = <<>>
  /\ isActive' = TRUE
  /\ ret' = NoReturn
  /\ sess' = [s \in Sessions |-> None]
  /\ firstResolved' = [u \in Callers |-> None]
  /\ freshGot' = [u \in Callers |-> [n |-> 0, versions |-> {}]]
  /\ graduatedTo' = None
  /\ nReports' = 0
  /\ reported' = NoReports
  /\ UNCHANGED prompts
  /\ UNCHANGED <<budgetVars, limiterVars, statVars, ledgerVars>>

\* PromptRegistry.createExperiment(ExperimentName, cfg) and the constructor of
\* PromptExperiment.  A call that throws leaves everything as it was.  A call
\* that succeeds stores a new experiment under the name, also when one is stored
\* already: metrics are zero, the assignment cache is empty, and the histories
\* and pending requests, which are about the experiment stored before, start anew.
createExperiment(cfg) ==
  /\ IF VersionsExist(prompts, cfg)
     THEN /\ created' = TRUE
          /\ control' = cfg.control
          /\ variants' = cfg.variants
          /\ metrics' = [v \in {cfg.control} \cup
                                 {cfg.variants[i].version : i \in DOMAIN cfg.variants}
                           |-> initializeMetrics]
          /\ assignments' = <<>>
          /\ isActive' = TRUE
          /\ ret' = NoReturn
          /\ sess' = [s \in Sessions |-> None]
          /\ firstResolved' = [u \in Callers |-> None]
          /\ freshGot' = [u \in Callers |-> [n |-> 0, versions |-> {}]]
          /\ graduatedTo' = None
          /\ nReports' = 0
          /\ reported' = NoReports
     ELSE /\ UNCHANGED <<created, control, variants, metrics, assignments, isActive,
                         sess, firstResolved, freshGot, graduatedTo, nReports, reported>>
          /\ ret' = [NoReturn EXCEPT !.threw = TRUE]
  /\ UNCHANGED prompts
  /\ UNCHANGED <<budgetVars, limiterVars, statVars, ledgerVars>>

\* The holder of the config object changes a weight (the experiment keeps the
\* caller's object, not a copy).
SetWeight(i, w) ==
  /\ created
  /\ i \in DOMAIN variants
  /\ variants' = [variants EXCEPT ![i].weight = w]
  /\ ret' = NoReturn
  /\ UNCHANGED <<prompts, created, control, metrics, assignments, isActive,
                 sess, firstResolved, freshGot, graduatedTo, nReports, reported>>
  /\ UNCHANGED <<budgetVars, limiterVars, statVars, ledgerVars>>

\* A request handler finds that userId has no assignment yet and is about to
\* call getPrompt(userId, ...): a first resolution that other calls may overtake.
Request(s, userId) ==
  /\ created
  /\ sess[s] = None
  /\ userId \notin DOMAIN assignments
  /\ sess' = [sess EXCEPT ![s] = userId]
  /\ ret' = NoReturn
  /\ UNCHANGED <<prompts, created, control, variants, metrics, assignments, isActive,
                 firstResolved, freshGot, graduatedTo, nReports, reported>>
  /\ UNCHANGED <<budgetVars, limiterVars, statVars, ledgerVars>>

\* The body of getPrompt, with the value `active` it reads from this.isActive.
getPromptBody(s, userId, choice, active) ==
  /\ created
  /\ s # None => sess[s] = userId
  /\ active => TotalImpressions < MaxImpressions
  /\ LET Ret(c, v) == [caller |-> userId, active |-> active, threw |-> ~c.ok,
                         version |-> IF c.ok THEN v ELSE None,
                         racer |-> s # None, cached |-> userId \in DOMAIN assignments]
     IN
     IF ~active
       THEN \* Return control when experiment is stopped
            LET c == ContentOf(prompts, control, choice) IN
            /\ ret' = Ret(c, control)
            /\ UNCHANGED <<assignments, metrics, firstResolved, freshGot>>
       ELSE LET a == assignVariant(assignments, variants, control, userId)
                c == ContentOf(prompts, a.version, choice) IN
            /\ assignments' = a.assignments
            /\ metrics' = IF c.ok THEN recordImpression(metrics, a.version) ELSE metrics
            /\ firstResolved' = IF firstResolved[userId] = None
                                  THEN [firstResolved EXCEPT ![userId] = a.version]
                                  ELSE firstResolved
            /\ ret' = Ret(c, a.version)
            /\ freshGot' = IF c.ok /\ s # None
                             THEN [freshGot EXCEPT ![userId] =
                                     [n |-> @.n + 1, versions |-> @.versions \cup {a.version}]]
                             ELSE freshGot
  /\ sess' = IF s # None THEN [sess EXCEPT ![s] = None] ELSE sess
  /\ UNCHANGED <<prompts, created, control, variants, isActive, graduatedTo, nReports, reported>>
  /\ UNCHANGED <<budgetVars, limiterVars, statVars, ledgerVars>>

\* A plausible slip: the stopped experiment is served like an active one.
getPromptIgnoringStop(s, userId, choice) == getPromptBody(s, userId, choice, TRUE)

\* PromptExperiment.getPrompt(userId, variables): synchronous, so one step.
\* s is the request handler whose pending call this is, or None for a call
\* made directly.
getPrompt(s, userId, choice) == getPromptBody(s, userId, choice, isActive)

\* A plausible slip: the rate is computed before the counter is incremented.
recordConversionStaleRate(userId) ==
  /\ created
  /\ TotalConversions < MaxConversions
  /\ IF userId \in DOMAIN assignments /\ assignments[userId] \in DOMAIN metrics
       THEN LET v == assignments[userId]
                m == metrics[v] IN
            metrics' = [metrics EXCEPT ![v].conversions = m.conversions + 1,
                                       ![v].conversionRate =
                                           Frac(m.conversions, m.impressions)]
       ELSE UNCHANGED metrics
  /\ ret' = NoReturn
  /\ UNCHANGED <<prompts, created, control, variants, assignments, isActive,
                 sess, firstResolved, freshGot, graduatedTo, nReports, reported>>
  /\ UNCHANGED <<budgetVars, limiterVars, statVars, ledgerVars>>

\* PromptExperiment.recordConversion(userId)
recordConversion(userId) ==
  /\ created
  /\ TotalConversions < MaxConversions
  /\ IF userId \in DOMAIN assignments /\ assignments[userId] \in DOMAIN metrics
       THEN LET v == assignments[userId]
                m == metrics[v] IN
            metrics' = [metrics EXCEPT ![v].conversions = m.conversions + 1,
                                       ![v].conversionRate =
                                           Frac(m.conversions + 1, m.impressions)]
       ELSE UNCHANGED metrics
  /\ ret' = NoReturn
  /\ UNCHANGED <<prompts, created, control, variants, assignments, isActive,
                 sess, firstResolved, freshGot, graduatedTo, nReports, reported>>
  /\ UNCHANGED <<budgetVars, limiterVars, statVars, ledgerVars>>

\* The running average of recordMetrics:
\*   avg = (avg * (n - 1) + value) / n   with n = impressions
RunningAvg(avg, n, value) == Frac(avg.n * (n - 1) + value * avg.d, avg.d * n)

\* PromptExperiment.recordMetrics(userId, data)
recordMetrics(userId, data) ==
  /\ created
  /\ nReports < MaxReports
  /\ IF userId \in DOMAIN assignments /\ assignments[userId] \in DOMAIN metrics
       THEN LET v == assignments[userId]
                m == metrics[v] IN
            /\ metrics' = [metrics EXCEPT
                 ![v].avgLatencyMs = RunningAvg(m.avgLatencyMs, m.impressions, data.latencyMs),
                 ![v].avgTokens = RunningAvg(m.avgTokens, m.impressions, data.tokens),
                 ![v].totalCost = m.totalCost + data.cost]
            /\ nReports' = nReports + 1
            /\ reported' = [reported EXCEPT ![v] =
                              [n |-> @.n + 1, latencyMs |-> @.latencyMs + data.latencyMs,
                               tokens |-> @.tokens + data.tokens]]
       ELSE UNCHANGED <<metrics, nReports, reported>>
  /\ ret' = NoReturn
  /\ UNCHANGED <<prompts, created, control, variants, assignments, isActive,
                 sess, firstResolved, freshGot, graduatedTo>>
  /\ UNCHANGED <<budgetVars, limiterVars, statVars, ledgerVars>>

\* PromptExperiment.stop()
stop ==
  /\ created
  /\ isActive' = FALSE
  /\ ret' = NoReturn
  /\ UNCHANGED <<prompts, created, control, variants, metrics, assignments,
                 sess, firstResolved, freshGot, graduatedTo, nReports, reported>>
  /\ UNCHANGED <<budgetVars, limiterVars, statVars, ledgerVars>>

\* PromptExperiment.restart()
restart ==
  /\ created
  /\ isActive' = TRUE
  /\ ret' = NoReturn
  /\ UNCHANGED <<prompts, created, control, variants, metrics, assignments,
                 sess, firstResolved, freshGot, graduatedTo, nReports, reported>>
  /\ UNCHANGED <<budgetVars, limiterVars, statVars, ledgerVars>>

\* PromptExperiment.graduate(version)
graduate(version) ==
  /\ created
  /\ control' = version
  /\ variants' = <<>>
  /\ isActive' = FALSE
  /\ graduatedTo' = version
  /\ ret' = NoReturn
  /\ UNCHANGED <<prompts, created, metrics, assignments, sess, firstResolved, freshGot,
                 nReports, reported>>
  /\ UNCHANGED <<budgetVars, limiterVars, statVars, ledgerVars>>

-----------------------------------------------------------------------------
(* CostTracker *)

\* MODEL_PRICING, USD per 1K tokens, in units of 0.0001 USD.
MODEL_PRICING ==
  [ gpt4turbo |-> [input |-> 100, output |-> 300],
    gpt4      |-> [input |-> 300, output |-> 600],
    gpt35turbo |-> [input |-> 5, output |-> 15] ]

ModelKey(model) ==
  CASE model = "gpt-4-turbo"   -> "gpt4turbo"
    [] model = "gpt-4"         -> "gpt4"
    [] model = "gpt-3.5-turbo" -> "gpt35turbo"
    [] OTHER                   -> None

\* Names that MODEL_PRICING, an object literal, answers with a property it
\* inherits from Object.prototype: a function, which is truthy and has neither
\* `input` nor `output`.
InheritedNames == {"constructor", "toString"}

\* The float NaN as a cost.  Costs of priced records are >= 0; a sum with a NaN
\* in it is NaN.
NaN == -1
Plus(a, b) == IF a = NaN \/ b = NaN THEN NaN ELSE a + b

\* `!pricing` in calculateCost: the lookup gave undefined.
PricingMissing(model) == ModelKey(model) = None /\ model \notin InheritedNames

\* A plausible slip: an unknown model is priced at nothing.
calculateCostFree(model, inputTokens, outputTokens) ==
  IF model \in InheritedNames THEN NaN
  ELSE IF ModelKey(model) = None THEN 0
  ELSE (inputTokens * MODEL_PRICING[ModelKey(model)].input
        + outputTokens * MODEL_PRICING[ModelKey(model)].output) \div 1000

\* CostTracker.calculateCost
calculateCost(model, inputTokens, outputTokens) ==
  IF model \in InheritedNames
    THEN NaN    \* inputTokens * undefined + outputTokens * undefined
    ELSE LET pricing == IF PricingMissing(model)
                          THEN MODEL_PRICING["gpt35turbo"]   \* fallback, with a warning
                          ELSE MODEL_PRICING[ModelKey(model)]
         IN (inputTokens * pricing.input + outputTokens * pricing.output) \div 1000

\* CostTracker.detectProvider
detectProvider(model) ==
  IF model \in {"gpt-4-turbo", "gpt-4", "gpt-3.5-turbo"} THEN "openai" ELSE "unknown"

\* The usage events reported to record(): 55 USD and 30 USD of gpt-4-turbo.
UsageChoices ==
  { [model |-> "gpt-4-turbo", inputTokens |-> 5500000, outputTokens |-> 0,
     userId |-> "alice", projectId |-> None],
    [model |-> "gpt-4-turbo", inputTokens |-> 0, outputTokens |-> 1000000,
     userId |-> "bob", projectId |-> "p1"] }

\* Calendar: day 0 is Saturday 2026-05-30, day 1 Sunday 2026-05-31, day 2 Monday
\* 2026-06-01.  getDay() of day d, the start of its week and of its month.
DayOfWeek(d) == (d + 6) % 7
StartOfDay(d) == d
StartOfWeek(d) == d - DayOfWeek(d)
StartOfMonth(d) == IF d >= 2 THEN 2 ELSE 0 - 29

PeriodStart(periodType, d) ==
  CASE periodType = "day"  -> StartOfDay(d)
    [] periodType = "week" -> StartOfWeek(d)
    [] OTHER               -> StartOfMonth(d)

RECURSIVE SumCost(_, _)
SumCost(recs, i) == IF i > Len(recs) THEN 0 ELSE Plus(recs[i].cost, SumCost(recs, i + 1))

\* CostTracker.getCurrentPeriodCost
getCurrentPeriodCost(recs, periodType, d) ==
  LET Keep(r) == r.timestamp >= PeriodStart(periodType, d)
  IN SumCost(SelectSeq(recs, Keep), 1)

\* CostTracker.getBreakdown(startDate, undefined, filters).total
getBreakdownTotal(recs, startDate, userId, projectId) ==
  LET Keep(r) == /\ r.timestamp >= startDate
                 /\ userId # None => r.userId = userId
                 /\ projectId # None => r.projectId = projectId
  IN SumCost(SelectSeq(recs, Keep), 1)

-----------------------------------------------------------------------------
(* BudgetManager *)

\* The limits in units of 0.0001 USD: 100 USD is 1000000.
BudgetChoices ==
  { [daily |-> 1000000, weekly |-> 1500000],
    [daily |-> 0, monthly |-> 500000, perUser |-> 500000, perProject |-> 500000] }

\* AlertConfig.thresholds [0.5, 0.8, 1.0], times 100.
Thresholds == <<50, 80, 100>>

PeriodSeq == <<"daily", "weekly", "monthly">>

PeriodType(period) ==
  CASE period = "daily" -> "day" [] period = "weekly" -> "week" [] OTHER -> "month"

Keys == {<<PeriodSeq[i], Thresholds[j]>> : i \in DOMAIN PeriodSeq, j \in DOMAIN Thresholds}

\* `${period}:${threshold}`.startsWith(prefix), for a prefix that is a period name
\* (no period name is the beginning of another).
KeyStartsWith(key, prefix) == key[1] = prefix

\* A limit that is set, and one that the code's `if (this.budgets.x)` takes as set.
Configured(b, name) == name \in DOMAIN b
Truthy(b, name) == name \in DOMAIN b /\ b[name] # 0

\* percentUsed >= threshold * 100, with percentUsed = (used / limit) * 100
Reached(used, limit, pct) == used * 100 >= pct * limit

\* A plausible slip: strictly above the limit.
isExceededStrict(used, limit) == used > limit

\* isExceeded: used >= limit
isExceeded(used, limit) == used >= limit

\* The first period at or after position i that checkBudget looks at (4: none).
RECURSIVE NextPeriod(_, _)
NextPeriod(b, i) ==
  IF i > Len(PeriodSeq) THEN i
  ELSE IF Truthy(b, PeriodSeq[i]) THEN i ELSE NextPeriod(b, i + 1)

\* The loop of checkAndSendAlert from threshold j on: the first threshold that is
\* reached and not marked as sent (Len(Thresholds) + 1: none).
RECURSIVE NextFire(_, _, _, _, _)
NextFire(period, used, limit, j, sent) ==
  IF j > Len(Thresholds) THEN j
  ELSE IF Reached(used, limit, Thresholds[j]) /\ <<period, Thresholds[j]>> \notin sent
    THEN j
    ELSE NextFire(period, used, limit, j + 1, sent)

IdleCall == [pc |-> "idle", userId |-> None, projectId |-> None, p |-> 0, t |-> 0,
             status |-> <<>>, limit |-> <<>>, exceededBudgets |-> {},
             alertsOn |-> FALSE, noReset |-> TRUE, limitExceeded |-> FALSE]

NoResult == [outcome |-> None, allowed |-> TRUE, status |-> <<>>, limit |-> <<>>,
             exceededBudgets |-> {},
             alertsOn |-> FALSE, noReset |-> TRUE, limitExceeded |-> FALSE, key |-> <<>>]

CallIds == {"c1", "c2"}

\* checkBudget()
NoArgs == [userId |-> None, projectId |-> None]

ArgChoices == { NoArgs, [userId |-> "alice", projectId |-> "p1"] }

InFlight(c) == calls[c].pc \in {"await_alert", "await_period", "hung"}

\* The result of a ledger operation.
NoLedger == [op |-> None, startDate |-> 0, userId |-> None, projectId |-> None,
             total |-> 0, removed |-> 0]

LedgerInit ==
  /\ warnings = 0
  /\ led = NoLedger

BudgetInit ==
  /\ constructed = FALSE
  /\ now = 0
  /\ records = <<>>
  /\ budgets = <<>>
  /\ alertsOn = FALSE
  /\ alertsSent = {}
  /\ calls = [c \in CallIds |-> IdleCall]
  /\ res = NoResult
  /\ firedEpoch = [k \in Keys |-> 0]
  /\ delivered = {}
  /\ seen = [reset |-> FALSE, failure |-> FALSE]

\* new CostTracker(); new BudgetManager(tracker, b)
NewBudgetManager(b) ==
  /\ ~constructed
  /\ constructed' = TRUE
  /\ budgets' = b
  /\ UNCHANGED <<now, records, alertsOn, alertsSent, calls, firedEpoch, delivered, seen>>
  /\ res' = NoResult
  /\ UNCHANGED <<expVars, limiterVars, statVars, ledgerVars>>

\* The limits that updateBudgets is called with.
UpdateChoices == { [daily |-> 500000] }

\* BudgetManager.updateBudgets(b): this.budgets = { ...this.budgets, ...b }
updateBudgets(b) ==
  /\ constructed
  /\ budgets' = [k \in DOMAIN budgets \cup DOMAIN b |->
                   IF k \in DOMAIN b THEN b[k] ELSE budgets[k]]
  /\ UNCHANGED <<constructed, now, records, alertsOn, alertsSent, calls, firedEpoch,
                 delivered, seen>>
  /\ res' = NoResult
  /\ UNCHANGED <<expVars, limiterVars, statVars, ledgerVars>>

\* The clock reaches the next day.
Tick ==
  /\ constructed
  /\ now < MaxDay
  /\ now' = now + 1
  /\ UNCHANGED <<constructed, records, budgets, alertsOn, alertsSent, calls, firedEpoch,
                 delivered, seen>>
  /\ res' = NoResult
  /\ UNCHANGED <<expVars, limiterVars, statVars, ledgerVars>>

\* CostTracker.record(params)
record(params) ==
  /\ constructed
  /\ Len(records) < MaxRecords
  /\ PricingMissing(params.model) => warnings < MaxWarnings
  /\ records' = Append(records,
       [timestamp |-> now, model |-> params.model,
        provider |-> detectProvider(params.model),
        inputTokens |-> params.inputTokens, outputTokens |-> params.outputTokens,
        cost |-> calculateCost(params.model, params.inputTokens, params.outputTokens),
        userId |-> params.userId, projectId |-> params.projectId])
  /\ warnings' = IF PricingMissing(params.model) THEN warnings + 1 ELSE warnings
  /\ led' = [NoLedger EXCEPT !.op = "record"]
  /\ UNCHANGED <<constructed, now, budgets, alertsOn, alertsSent, calls, firedEpoch,
                 delivered, seen>>
  /\ res' = NoResult
  /\ UNCHANGED <<expVars, limiterVars, statVars>>

\* BudgetManager.configureAlerts({thresholds: [0.5, 0.8, 1.0], onAlert}), once.
configureAlerts ==
  /\ constructed
  /\ ~alertsOn
  /\ alertsOn' = TRUE
  /\ UNCHANGED <<constructed, now, records, budgets, alertsSent, calls, firedEpoch,
                 delivered, seen>>
  /\ res' = NoResult
  /\ UNCHANGED <<expVars, limiterVars, statVars, ledgerVars>>

\* checkAndSendAlert(PeriodSeq[call.p], status) from threshold j on, up to its
\* next await: either onAlert is invoked for a threshold (and awaited), or the
\* loop is over and checkBudget awaits the finished checkAndSendAlert.
SendFrom(c, call, j, sent) ==
  LET period == PeriodSeq[call.p]
      used == call.status[period]
      \* status.percentUsed is of the limit that checkPeriodBudget was given
      f == IF alertsOn THEN NextFire(period, used, call.limit[period], j, sent)
           ELSE Len(Thresholds) + 1
  IN IF f <= Len(Thresholds)
       THEN /\ calls' = [calls EXCEPT ![c] = [call EXCEPT !.pc = "await_alert", !.t = f]]
            /\ firedEpoch' = [firedEpoch EXCEPT ![<<period, Thresholds[f]>>] =
                                              IF @ < 2 THEN @ + 1 ELSE @]
            /\ res' = NoResult
       ELSE /\ calls' = [calls EXCEPT ![c] = [call EXCEPT !.pc = "await_period", !.t = 0]]
            /\ res' = NoResult
            /\ UNCHANGED firedEpoch

\* The per-user and per-project checks and the return of checkBudget.
Finish(c, call) ==
  LET userOn == Truthy(budgets, "perUser") /\ call.userId # None
      userCost == getBreakdownTotal(records, StartOfMonth(now), call.userId, None)
      userEx == userOn /\ isExceeded(userCost, budgets["perUser"])
      projOn == Truthy(budgets, "perProject") /\ call.projectId # None
      projCost == getBreakdownTotal(records, StartOfMonth(now), None, call.projectId)
      projEx == projOn /\ isExceeded(projCost, budgets["perProject"])
      exceeded == call.exceededBudgets
                    \cup (IF userEx THEN {"user"} ELSE {})
                    \cup (IF projEx THEN {"project"} ELSE {})
      \* the limits that are set, whether or not the code looks at them
      userSet == Configured(budgets, "perUser") /\ call.userId # None
      projSet == Configured(budgets, "perProject") /\ call.projectId # None
      over == \/ userSet /\ userCost >= budgets["perUser"]
              \/ projSet /\ projCost >= budgets["perProject"]
  IN /\ calls' = [calls EXCEPT ![c] = IdleCall]
     /\ res' = [outcome |-> "returned",
                allowed |-> (exceeded = {}),
                status |-> [x \in DOMAIN call.status
                                   \cup (IF userOn THEN {"user"} ELSE {})
                                   \cup (IF projOn THEN {"project"} ELSE {}) |->
                              IF x = "user" THEN userCost
                              ELSE IF x = "project" THEN projCost
                              ELSE call.status[x]],
                limit |-> call.limit,
                exceededBudgets |-> exceeded,
                alertsOn |-> call.alertsOn,
                noReset |-> call.noReset,
                limitExceeded |-> call.limitExceeded \/ over,
                key |-> <<>>]
     /\ UNCHANGED firedEpoch

\* checkBudget from position i of daily, weekly, monthly on, up to its next await.
RunFrom(c, call, i) ==
  LET j == NextPeriod(budgets, i)
      \* the limits on the way that are set: is one of them used up?
      skippedOver == \E q \in i..(j - 1) :
                        /\ Configured(budgets, PeriodSeq[q])
                        /\ getCurrentPeriodCost(records, PeriodType(PeriodSeq[q]), now)
                             >= budgets[PeriodSeq[q]]
      call1 == [call EXCEPT !.limitExceeded = @ \/ skippedOver]
  IN IF j > Len(PeriodSeq)
       THEN Finish(c, call1)
       ELSE LET period == PeriodSeq[j]
                \* checkPeriodBudget
                used == getCurrentPeriodCost(records, PeriodType(period), now)
                ex == isExceeded(used, budgets[period])
                call2 == [call1 EXCEPT
                            !.p = j,
                            !.status = [x \in DOMAIN call.status \cup {period} |->
                                          IF x = period THEN used ELSE call.status[x]],
                            !.limit = [x \in DOMAIN call.limit \cup {period} |->
                                         IF x = period THEN budgets[period] ELSE call.limit[x]],
                            !.exceededBudgets = IF ex THEN @ \cup {period} ELSE @,
                            !.limitExceeded = @ \/ used >= budgets[period]]
            IN SendFrom(c, call2, 1, alertsSent)

\* BudgetManager.checkBudget(userId, projectId): the call, up to its first await.
checkBudget(c, args) ==
  /\ constructed
  /\ calls[c].pc = "idle"
  /\ RunFrom(c, [IdleCall EXCEPT !.userId = args.userId, !.projectId = args.projectId,
                                 !.alertsOn = alertsOn], 1)
  /\ UNCHANGED <<constructed, now, records, budgets, alertsOn, alertsSent, delivered, seen>>
  /\ UNCHANGED <<expVars, limiterVars, statVars, ledgerVars>>

\* A plausible slip: the marker is not recorded when onAlert has completed.
MarkSentNever(sent, key) == sent

\* this.alertsSent.add(alertKey)
MarkSent(sent, key) == sent \cup {key}

\* onAlert completes: the awaiting checkAndSendAlert marks the key as sent and
\* goes on with the next threshold.
AlertResolved(c) ==
  /\ calls[c].pc = "await_alert"
  /\ LET key == <<PeriodSeq[calls[c].p], Thresholds[calls[c].t]>>
         sent == MarkSent(alertsSent, key)
     IN /\ alertsSent' = sent
        /\ delivered' = delivered \cup {key}
        /\ SendFrom(c, calls[c], calls[c].t + 1, sent)
  /\ UNCHANGED <<constructed, now, records, budgets, alertsOn, seen>>
  /\ UNCHANGED <<expVars, limiterVars, statVars, ledgerVars>>

\* onAlert throws or rejects: checkAndSendAlert and checkBudget reject.
AlertRejected(c) ==
  /\ calls[c].pc = "await_alert"
  /\ calls' = [calls EXCEPT ![c] = IdleCall]
  /\ res' = [NoResult EXCEPT !.outcome = "rejected",
                             !.key = <<PeriodSeq[calls[c].p], Thresholds[calls[c].t]>>]
  /\ seen' = [seen EXCEPT !.failure = TRUE]
  /\ UNCHANGED <<constructed, now, records, budgets, alertsOn, alertsSent, firedEpoch,
                 delivered>>
  /\ UNCHANGED <<expVars, limiterVars, statVars, ledgerVars>>

\* onAlert returns a promise that never settles.
AlertHangs(c) ==
  /\ calls[c].pc = "await_alert"
  /\ calls' = [calls EXCEPT ![c].pc = "hung"]
  /\ UNCHANGED <<constructed, now, records, budgets, alertsOn, alertsSent, firedEpoch,
                 delivered, seen>>
  /\ res' = NoResult
  /\ UNCHANGED <<expVars, limiterVars, statVars, ledgerVars>>

\* checkBudget resumes after `await this.checkAndSendAlert(...)`.
PeriodDone(c) ==
  /\ calls[c].pc = "await_period"
  /\ RunFrom(c, calls[c], calls[c].p + 1)
  /\ UNCHANGED <<constructed, now, records, budgets, alertsOn, alertsSent, delivered, seen>>
  /\ UNCHANGED <<expVars, limiterVars, statVars, ledgerVars>>

\* BudgetManager.resetAlerts(period); period None is the call without argument.
resetAlerts(period) ==
  /\ constructed
  /\ LET gone == IF period # None
                   THEN {k \in Keys : KeyStartsWith(k, period)}
                   ELSE Keys
     IN /\ alertsSent' = alertsSent \ gone
        /\ delivered' = delivered \ gone
        /\ firedEpoch' = [k \in Keys |-> IF k \in gone THEN 0 ELSE firedEpoch[k]]
  /\ calls' = [c \in CallIds |->
                 IF InFlight(c) THEN [calls[c] EXCEPT !.noReset = FALSE] ELSE calls[c]]
  /\ res' = NoResult
  /\ seen' = [seen EXCEPT !.reset = TRUE]
  /\ UNCHANGED <<constructed, now, records, budgets, alertsOn>>
  /\ UNCHANGED <<expVars, limiterVars, statVars, ledgerVars>>

-----------------------------------------------------------------------------
(* RateLimiter *)

\* The limits given to the constructor.
LimitChoices == { [requests |-> 3, windowMs |-> 1000] }

LimiterKeys == {"default", "tenant"}

LimiterCallers == {"a", "b"}

\* The time that passes between two calls, in ms.
AdvanceChoices == {500, 501}

Max(x, y) == IF x >= y THEN x ELSE y

\* A plausible slip: a timestamp exactly windowMs old still counts.
LimitStatusInclusive(ts, nowMs, lim) ==
  LET windowStart == nowMs - lim.windowMs
      InWindow(t) == t >= windowStart
      timestamps == SelectSeq(ts, InWindow)
      oldestRequest == IF Len(timestamps) > 0 /\ timestamps[1] # 0
                         THEN timestamps[1] ELSE nowMs
  IN [allowed |-> Len(timestamps) < lim.requests,
      remaining |-> Max(0, lim.requests - Len(timestamps)),
      resetInMs |-> Max(0, oldestRequest + lim.windowMs - nowMs)]

\* A plausible slip: a request is allowed when the window already holds
\* `requests` timestamps.
LimitStatusAtLimit(ts, nowMs, lim) ==
  LET windowStart == nowMs - lim.windowMs
      InWindow(t) == t > windowStart
      timestamps == SelectSeq(ts, InWindow)
      oldestRequest == IF Len(timestamps) > 0 /\ timestamps[1] # 0
                         THEN timestamps[1] ELSE nowMs
  IN [allowed |-> Len(timestamps) <= lim.requests,
      remaining |-> Max(0, lim.requests - Len(timestamps)),
      resetInMs |-> Max(0, oldestRequest + lim.windowMs - nowMs)]

\* What checkLimit computes from the stored timestamps ts of the key at time
\* nowMs.  `timestamps[0] || now` takes now also for a first timestamp of 0.
LimitStatus(ts, nowMs, lim) ==
  LET windowStart == nowMs - lim.windowMs
      InWindow(t) == t > windowStart
      timestamps == SelectSeq(ts, InWindow)
      oldestRequest == IF Len(timestamps) > 0 /\ timestamps[1] # 0
                         THEN timestamps[1] ELSE nowMs
  IN [allowed |-> Len(timestamps) < lim.requests,
      remaining |-> Max(0, lim.requests - Len(timestamps)),
      resetInMs |-> Max(0, oldestRequest + lim.windowMs - nowMs)]

NoCheck == [caller |-> None, key |-> None, allowed |-> FALSE, remaining |-> 0,
            resetInMs |-> 0]

NoWake == [key |-> None, slept |-> FALSE, recorded |-> FALSE]

NoWaiter == [key |-> None, wakeAt |-> 0, recorded |-> FALSE]

Stored == SumOver([k \in LimiterKeys |-> Len(requests[k])], LimiterKeys)

LimiterInit ==
  /\ limits = <<>>
  /\ clock = 0
  /\ requests = [k \in LimiterKeys |-> <<>>]
  /\ pending = [c \in LimiterCallers |-> None]
  /\ chk = NoCheck
  /\ waiter = NoWaiter
  /\ woke = NoWake
  /\ unadmitted = FALSE

\* The result of the last getWinner / isSignificant call.
NoStat == [op |-> None, floor |-> 0, winner |-> None, significant |-> FALSE]

\* The result of a render call.
NoRender == [version |-> None, variables |-> <<>>, ok |-> FALSE, error |-> None,
             content |-> <<>>]

StatInit == stat = NoStat /\ rnd = NoRender

\* new RateLimiter(l)
NewRateLimiter(l) ==
  /\ DOMAIN limits = {}
  /\ limits' = l
  /\ chk' = NoCheck
  /\ woke' = NoWake
  /\ UNCHANGED <<clock, requests, pending, waiter, unadmitted>>
  /\ UNCHANGED <<expVars, budgetVars, statVars, ledgerVars>>

\* d ms pass.
Advance(d) ==
  /\ DOMAIN limits # {}
  /\ clock + d <= MaxTime
  /\ clock' = clock + d
  /\ chk' = NoCheck
  /\ woke' = NoWake
  /\ UNCHANGED <<limits, requests, pending, waiter, unadmitted>>
  /\ UNCHANGED <<expVars, budgetVars, statVars, ledgerVars>>

\* RateLimiter.checkLimit(key), called by c.  The filtered list is a local of
\* the call: this.requests is not written.
checkLimit(c, key) ==
  /\ DOMAIN limits # {}
  /\ LET r == LimitStatus(requests[key], clock, limits)
     IN /\ chk' = [caller |-> c, key |-> key, allowed |-> r.allowed,
                   remaining |-> r.remaining, resetInMs |-> r.resetInMs]
        /\ pending' = [pending EXCEPT ![c] = IF r.allowed THEN key ELSE None]
  /\ woke' = NoWake
  /\ UNCHANGED <<limits, clock, requests, waiter, unadmitted>>
  /\ UNCHANGED <<expVars, budgetVars, statVars, ledgerVars>>

\* A plausible slip: a request is recorded only while the window has room.
recordRequestIfRoom(c, key) ==
  /\ DOMAIN limits # {}
  /\ Stored < MaxStored
  /\ requests' = IF LimitStatus(requests[key], clock, limits).allowed
                   THEN [requests EXCEPT ![key] = Append(@, clock)]
                   ELSE requests
  /\ pending' = [pending EXCEPT ![c] = None]
  /\ unadmitted' = (unadmitted \/ pending[c] # key)
  /\ waiter' = IF waiter.key = key THEN [waiter EXCEPT !.recorded = TRUE] ELSE waiter
  /\ chk' = NoCheck
  /\ woke' = NoWake
  /\ UNCHANGED <<limits, clock>>
  /\ UNCHANGED <<expVars, budgetVars, statVars, ledgerVars>>

\* RateLimiter.recordRequest(key), called by c.
recordRequest(c, key) ==
  /\ DOMAIN limits # {}
  /\ Stored < MaxStored
  /\ requests' = [requests EXCEPT ![key] = Append(@, clock)]
  /\ pending' = [pending EXCEPT ![c] = None]
  /\ unadmitted' = (unadmitted \/ pending[c] # key)
  /\ waiter' = IF waiter.key = key THEN [waiter EXCEPT !.recorded = TRUE] ELSE waiter
  /\ chk' = NoCheck
  /\ woke' = NoWake
  /\ UNCHANGED <<limits, clock>>
  /\ UNCHANGED <<expVars, budgetVars, statVars, ledgerVars>>

\* RateLimiter.waitForSlot(key): returns at once, or suspends on a timer of
\* resetInMs + 100 ms.
waitForSlot(key) ==
  /\ DOMAIN limits # {}
  /\ waiter.key = None
  /\ LET r == LimitStatus(requests[key], clock, limits)
     IN IF ~r.allowed /\ r.resetInMs > 0
          THEN /\ waiter' = [key |-> key, wakeAt |-> clock + r.resetInMs + 100,
                             recorded |-> FALSE]
               /\ woke' = NoWake
          ELSE /\ waiter' = NoWaiter
               /\ woke' = [key |-> key, slept |-> FALSE, recorded |-> FALSE]
  /\ chk' = NoCheck
  /\ UNCHANGED <<limits, clock, requests, pending, unadmitted>>
  /\ UNCHANGED <<expVars, budgetVars, statVars, ledgerVars>>

\* The timer of the suspended waitForSlot fires (not before its time) and the
\* call resolves.
TimerFires ==
  /\ waiter.key # None
  /\ Max(clock, waiter.wakeAt) <= MaxTime
  /\ clock' = Max(clock, waiter.wakeAt)
  /\ woke' = [key |-> waiter.key, slept |-> TRUE, recorded |-> waiter.recorded]
  /\ waiter' = NoWaiter
  /\ chk' = NoCheck
  /\ UNCHANGED <<limits, requests, pending, unadmitted>>
  /\ UNCHANGED <<expVars, budgetVars, statVars, ledgerVars>>

LimiterNext ==
  \/ \E l \in LimitChoices : NewRateLimiter(l)
  \/ \E d \in AdvanceChoices : Advance(d)
  \/ \E c \in LimiterCallers, k \in LimiterKeys : checkLimit(c, k)
  \/ \E c \in LimiterCallers, k \in LimiterKeys : recordRequest(c, k)
  \/ \E k \in LimiterKeys : waitForSlot(k)
  \/ TimerFires

\* One checkBudget call at a time, each awaited before the next is made; the
\* callback completes, fails or hangs; resetAlerts at any point.
\* Alerts over the days: checkBudget() calls made one after the other, with a
\* callback that completes, fails or never settles, and limits that change.
BudgetNext ==
  \/ \E b \in BudgetChoices : NewBudgetManager(b)
  \/ Tick
  \/ \E u \in UsageChoices : record(u)
  \/ configureAlerts
  \/ checkBudget("c1", NoArgs)
  \/ AlertResolved("c1")
  \/ AlertRejected("c1")
  \/ AlertHangs("c1")
  \/ PeriodDone("c1")
  \/ \E b \in UpdateChoices : updateBudgets(b)

\* Alerts and resetAlerts within one day.
BudgetResetNext ==
  \/ \E b \in BudgetChoices : NewBudgetManager(b)
  \/ \E u \in UsageChoices : record(u)
  \/ configureAlerts
  \/ checkBudget("c1", NoArgs)
  \/ AlertResolved("c1")
  \/ AlertRejected("c1")
  \/ PeriodDone("c1")
  \/ \E p \in {"daily", "weekly", "monthly", None} : resetAlerts(p)
  \/ \E b \in UpdateChoices : updateBudgets(b)

\* The limits without alerts: checkBudget with and without userId / projectId
\* over the days.
BudgetLimitsNext ==
  \/ \E b \in BudgetChoices : NewBudgetManager(b)
  \/ Tick
  \/ \E u \in UsageChoices : record(u)
  \/ \E a \in ArgChoices : checkBudget("c1", a)
  \/ PeriodDone("c1")
  \/ \E b \in UpdateChoices : updateBudgets(b)

Init == ExpInit /\ BudgetInit /\ LimiterInit /\ StatInit /\ LedgerInit

SpecBudget == Init /\ [][BudgetNext]_vars

SpecBudgetReset == Init /\ [][BudgetResetNext]_vars

SpecBudgetLimits == Init /\ [][BudgetLimitsNext]_vars

SpecLimiter == Init /\ [][LimiterNext]_vars

\* The limiter used by one caller, one call after the other.
SoloNext ==
  \/ \E l \in LimitChoices : NewRateLimiter(l)
  \/ \E d \in AdvanceChoices : Advance(d)
  \/ \E k \in LimiterKeys : checkLimit("a", k)
  \/ \E k \in LimiterKeys : recordRequest("a", k)

SpecLimiterSolo == Init /\ [][SoloNext]_vars

\* Several checkBudget calls in flight, with a callback that always completes.
BudgetRaceNext ==
  \/ \E b \in BudgetChoices : NewBudgetManager(b)
  \/ \E u \in UsageChoices : record(u)
  \/ configureAlerts
  \/ \E c \in CallIds : checkBudget(c, NoArgs)
  \/ \E c \in CallIds : AlertResolved(c)
  \/ \E c \in CallIds : PeriodDone(c)
  \/ \E b \in UpdateChoices : updateBudgets(b)

SpecBudgetRace == Init /\ [][BudgetRaceNext]_vars


ExpNext ==
  \/ \E v \in Versions : Register(v)
  \/ \E cfg \in ConfigChoices : createExperiment(cfg)
  \/ \E i \in 1..2, w \in WeightChoices : SetWeight(i, w)
  \/ \E u \in Callers, c \in VarChoices : getPrompt(None, u, c)
  \/ \E u \in Callers : recordConversion(u)
  \/ \E u \in Callers : recordMetrics(u, FirstReport)
  \/ stop
  \/ restart
  \/ \E v \in Versions : graduate(v)

\* The experiment with the values reported for served prompts.
MetricsNext ==
  \/ \E v \in Versions : Register(v)
  \/ \E cfg \in ConfigChoices : createExperiment(cfg)
  \/ \E i \in 1..2, w \in WeightChoices : SetWeight(i, w)
  \/ \E u \in Callers, c \in VarChoices : getPrompt(None, u, c)
  \/ \E u \in Callers, d \in MetricsData : recordMetrics(u, d)
  \/ stop
  \/ restart
  \/ \E v \in Versions : graduate(v)

SpecExperiment == Init /\ [][ExpNext]_vars

SpecMetrics == Init /\ [][MetricsNext]_vars

\* The experiment with request handlers racing for first resolutions.
RaceNext ==
  \/ \E v \in Versions : Register(v)
  \/ \E cfg \in ConfigChoices : createExperiment(cfg)
  \/ \E i \in 1..2, w \in WeightChoices : SetWeight(i, w)
  \/ \E s \in Sessions, u \in Callers : Request(s, u)
  \/ \E s \in Sessions \cup {None}, u \in Callers, c \in VarChoices : getPrompt(s, u, c)
  \/ stop
  \/ restart
  \/ \E v \in Versions : graduate(v)

SpecRace == Init /\ [][RaceNext]_vars

-----------------------------------------------------------------------------
(* PromptRegistry.render called directly. *)

\* registry.render(ExperimentName, version, variables)
Render(version, variables) ==
  /\ LET r == render(prompts, version, variables) IN
     rnd' = [version |-> version, variables |-> variables, ok |-> r.ok,
             error |-> r.error, content |-> r.content]
  /\ UNCHANGED <<expVars, budgetVars, limiterVars, ledgerVars, stat>>

RenderNext ==
  \/ \E v \in Versions : Register(v)
  \/ \E v \in Versions, vs \in RenderVarChoices : Render(v, vs)

SpecRender == Init /\ [][RenderNext]_vars

-----------------------------------------------------------------------------
(* The CostTracker ledger: record, cleanup and the aggregate reads. *)

\* Usage events of a priced model, of a model without price, and of a model
\* whose name is a property every object inherits.
LedgerUsageChoices ==
  { [model |-> "gpt-4", inputTokens |-> 1000, outputTokens |-> 2000,
     userId |-> "alice", projectId |-> None],
    [model |-> "my-model", inputTokens |-> 1000, outputTokens |-> 2000,
     userId |-> "bob", projectId |-> "p1"],
    [model |-> "constructor", inputTokens |-> 1000, outputTokens |-> 0,
     userId |-> "alice", projectId |-> "p1"] }

\* The cutoff dates passed to cleanup and the start dates passed to getBreakdown.
DateChoices == 0 .. (MaxDay + 1)

FilterChoices == { [userId |-> None, projectId |-> None],
                   [userId |-> "alice", projectId |-> None],
                   [userId |-> None, projectId |-> "p1"] }

\* A plausible slip: records made at the cutoff are removed too.
cleanupInclusive(olderThan) ==
  /\ constructed
  /\ LET Keep(r) == r.timestamp > olderThan
         kept == SelectSeq(records, Keep)
     IN /\ records' = kept
        /\ led' = [NoLedger EXCEPT !.op = "cleanup", !.startDate = olderThan,
                                   !.removed = Len(records) - Len(kept)]
  /\ res' = NoResult
  /\ UNCHANGED <<constructed, now, budgets, alertsOn, alertsSent, calls, firedEpoch,
                 delivered, seen, warnings>>
  /\ UNCHANGED <<expVars, limiterVars, statVars>>

\* CostTracker.cleanup(olderThan)
cleanup(olderThan) ==
  /\ constructed
  /\ LET Keep(r) == r.timestamp >= olderThan
         kept == SelectSeq(records, Keep)
     IN /\ records' = kept
        /\ led' = [NoLedger EXCEPT !.op = "cleanup", !.startDate = olderThan,
                                   !.removed = Len(records) - Len(kept)]
  /\ res' = NoResult
  /\ UNCHANGED <<constructed, now, budgets, alertsOn, alertsSent, calls, firedEpoch,
                 delivered, seen, warnings>>
  /\ UNCHANGED <<expVars, limiterVars, statVars>>

\* A call of CostTracker.getBreakdown(startDate, undefined, filters), its total.
readBreakdown(startDate, filters) ==
  /\ constructed
  /\ led' = [NoLedger EXCEPT !.op = "getBreakdown", !.startDate = startDate,
                             !.userId = filters.userId, !.projectId = filters.projectId,
                             !.total = getBreakdownTotal(records, startDate,
                                                         filters.userId, filters.projectId)]
  /\ res' = NoResult
  /\ UNCHANGED <<constructed, now, records, budgets, alertsOn, alertsSent, calls,
                 firedEpoch, delivered, seen, warnings>>
  /\ UNCHANGED <<expVars, limiterVars, statVars>>

\* A call of CostTracker.getCurrentPeriodCost(periodType).
readCurrentPeriodCost(periodType) ==
  /\ constructed
  /\ led' = [NoLedger EXCEPT !.op = "getCurrentPeriodCost",
                             !.startDate = PeriodStart(periodType, now),
                             !.total = getCurrentPeriodCost(records, periodType, now)]
  /\ res' = NoResult
  /\ UNCHANGED <<constructed, now, records, budgets, alertsOn, alertsSent, calls,
                 firedEpoch, delivered, seen, warnings>>
  /\ UNCHANGED <<expVars, limiterVars, statVars>>

\* A call of CostTracker.calculateCost(model, inputTokens, outputTokens) from
\* outside: the cost is returned, a model without price is warned about, and no
\* record is made.
readCost(params) ==
  /\ constructed
  /\ PricingMissing(params.model) => warnings < MaxWarnings
  /\ warnings' = IF PricingMissing(params.model) THEN warnings + 1 ELSE warnings
  /\ led' = [NoLedger EXCEPT !.op = "calculateCost",
                             !.total = calculateCost(params.model, params.inputTokens,
                                                     params.outputTokens)]
  /\ res' = NoResult
  /\ UNCHANGED <<constructed, now, records, budgets, alertsOn, alertsSent, calls,
                 firedEpoch, delivered, seen>>
  /\ UNCHANGED <<expVars, limiterVars, statVars>>

LedgerNext ==
  \/ \E b \in BudgetChoices : NewBudgetManager(b)
  \/ Tick
  \/ \E u \in LedgerUsageChoices : record(u)
  \/ \E u \in LedgerUsageChoices : readCost(u)
  \/ \E d \in DateChoices : cleanup(d)
  \/ \E d \in DateChoices, f \in FilterChoices : readBreakdown(d, f)
  \/ \E t \in {"day", "week", "month"} : readCurrentPeriodCost(t)

SpecLedger == Init /\ [][LedgerNext]_vars

-----------------------------------------------------------------------------
(* PromptExperiment.getWinner and PromptExperiment.isSignificant, applied to *)
(* metrics tables drawn from bounded sets.                                   *)

\* The sample floor written into getWinner.
WinnerFloor == 100

\* The critical value 1.96 of isSignificant, as ZCriticalNum / ZCriticalDen.
ZCriticalNum == 196
ZCriticalDen == 100

\* The minImpressions arguments passed by callers.
MinImpressionsChoices == {50, 100}

\* Impressions and conversions of one version.
SampleChoices ==
  { [impressions |-> 0,   conversions |-> 0],
    [impressions |-> 60,  conversions |-> 30],
    [impressions |-> 100, conversions |-> 0],
    [impressions |-> 100, conversions |-> 10],
    [impressions |-> 100, conversions |-> 30],
    [impressions |-> 200, conversions |-> 20] }

\* The iteration order of the metrics Map: control first, then the variants as
\* the constructor inserted them.  Every configuration has control v1 and the
\* variants in the order v2, v3.
InsertionOrder == <<"v1", "v2", "v3">>

\* The loop of getWinner over the entries from position i, with the winner so far.
RECURSIVE WinnerFrom(_, _, _)
WinnerFrom(m, i, winner) ==
  IF i > Len(InsertionOrder) THEN winner
  ELSE LET version == InsertionOrder[i] IN
       IF version \notin DOMAIN m THEN WinnerFrom(m, i + 1, winner)
       ELSE IF m[version].impressions < WinnerFloor THEN WinnerFrom(m, i + 1, winner)
       ELSE IF winner = None
               \/ FracLess(m[winner].conversionRate, m[version].conversionRate)
         THEN WinnerFrom(m, i + 1, version)
         ELSE WinnerFrom(m, i + 1, winner)

\* pooledP * (1 - pooledP) * (1/n1 + 1/n2), the square of se.
SeSquared(p1, n1, p2, n2) ==
  LET pooledP == FracDivInt(FracAdd(FracMul(p1, Frac(n1, 1)), FracMul(p2, Frac(n2, 1))),
                            n1 + n2)
  IN FracMul(FracMul(pooledP, FracSub(Frac(1, 1), pooledP)),
             FracAdd(Frac(1, n1), Frac(1, n2)))

\* z > 1.96 for z = |p1 - p2| / se with se > 0, compared as squares.
ZExceeds(p1, p2, se2) ==
  LET d == FracSub(p1, p2) IN
  FracLess(FracMul(Frac(ZCriticalNum * ZCriticalNum, ZCriticalDen * ZCriticalDen), se2),
           FracMul(d, d))

\* A plausible slip: the sample size of the variants is not tested.
RECURSIVE SignificantFromNoFloor(_, _, _, _, _)
SignificantFromNoFloor(m, ctl, vs, i, minImpressions) ==
  IF i > Len(vs) THEN FALSE
  ELSE LET version == vs[i].version IN
       IF version \notin DOMAIN m THEN FALSE
       ELSE LET se2 == SeSquared(m[ctl].conversionRate, m[ctl].impressions,
                                 m[version].conversionRate, m[version].impressions)
            IN IF se2.n = 0 THEN SignificantFromNoFloor(m, ctl, vs, i + 1, minImpressions)
               ELSE IF se2.n > 0
                       /\ ZExceeds(m[ctl].conversionRate, m[version].conversionRate, se2)
                 THEN TRUE
                 ELSE SignificantFromNoFloor(m, ctl, vs, i + 1, minImpressions)

\* The loop of isSignificant over config.variants from position i.  A negative
\* se squared makes se and z NaN, and no comparison with NaN is true.
RECURSIVE SignificantFrom(_, _, _, _, _)
SignificantFrom(m, ctl, vs, i, minImpressions) ==
  IF i > Len(vs) THEN FALSE
  ELSE LET version == vs[i].version IN
       IF version \notin DOMAIN m THEN FALSE
       ELSE IF m[version].impressions < minImpressions THEN FALSE
       ELSE LET se2 == SeSquared(m[ctl].conversionRate, m[ctl].impressions,
                                 m[version].conversionRate, m[version].impressions)
            IN IF se2.n = 0 THEN SignificantFrom(m, ctl, vs, i + 1, minImpressions)
               ELSE IF se2.n > 0
                       /\ ZExceeds(m[ctl].conversionRate, m[version].conversionRate, se2)
                 THEN TRUE
                 ELSE SignificantFrom(m, ctl, vs, i + 1, minImpressions)

Significant(m, ctl, vs, minImpressions) ==
  IF ctl \notin DOMAIN m THEN FALSE
  ELSE IF m[ctl].impressions < minImpressions THEN FALSE
  ELSE SignificantFrom(m, ctl, vs, 1, minImpressions)

\* PromptExperiment.getWinner().  The method declares no parameter: the floor a
\* caller passes is ignored.
getWinner(minImpressions) ==
  /\ created
  /\ stat' = [NoStat EXCEPT !.op = "getWinner", !.floor = minImpressions,
                            !.winner = WinnerFrom(metrics, 1, None)]
  /\ UNCHANGED <<expVars, budgetVars, limiterVars, ledgerVars, rnd>>

\* PromptExperiment.isSignificant(minImpressions)
isSignificant(minImpressions) ==
  /\ created
  /\ stat' = [NoStat EXCEPT !.op = "isSignificant", !.floor = minImpressions,
                            !.significant = Significant(metrics, control, variants,
                                                        minImpressions)]
  /\ UNCHANGED <<expVars, budgetVars, limiterVars, ledgerVars, rnd>>

\* An experiment over registered versions whose callers (others than the ones
\* followed individually) have produced the impressions and conversions of a
\* sample table; conversionRate is the rate of the last recordConversion.
StatsInit ==
  /\ \E cfg \in ConfigChoices :
       \E samples \in [{cfg.control} \cup {cfg.variants[i].version : i \in DOMAIN cfg.variants}
                         -> SampleChoices] :
         /\ control = cfg.control
         /\ variants = cfg.variants
         /\ metrics = [v \in DOMAIN samples |->
                         [initializeMetrics EXCEPT
                            !.impressions = samples[v].impressions,
                            !.conversions = samples[v].conversions,
                            !.conversionRate =
                               IF samples[v].conversions = 0 THEN Zero
                               ELSE Frac(samples[v].conversions, samples[v].impressions)]]
  /\ prompts = [v \in Versions |-> Content(v)]
  /\ created = TRUE
  /\ isActive = TRUE
  /\ assignments = <<>>
  /\ sess = [s \in Sessions |-> None]
  /\ ret = NoReturn
  /\ firstResolved = [u \in Callers |-> None]
  /\ freshGot = [u \in Callers |-> [n |-> 0, versions |-> {}]]
  /\ graduatedTo = None
  /\ nReports = 0
  /\ reported = NoReports
  /\ BudgetInit /\ LimiterInit /\ StatInit /\ LedgerInit

StatsNext ==
  \/ \E m \in MinImpressionsChoices : getWinner(m)
  \/ \E m \in MinImpressionsChoices : isSignificant(m)

SpecStats == StatsInit /\ [][StatsNext]_vars

\* Everything together.
Next ==
  \/ ExpNext \/ MetricsNext \/ RaceNext \/ BudgetNext \/ BudgetResetNext \/ BudgetLimitsNext
  \/ BudgetRaceNext \/ LimiterNext \/ StatsNext \/ LedgerNext \/ RenderNext \/ SoloNext

Spec == Init /\ [][Next]_vars

-----------------------------------------------------------------------------
(* Claims about the experiment *)

\* What assignVariant would derive for userId from the weights as they are now.
Derived(userId) == Walk(variants, control, HashMilli(userId), 1, 0)

Returned == ret.caller # None /\ ~ret.threw

\* C1: every getPrompt call made while the experiment is active returns the
\* version of that caller's first resolution, whatever happened in between.
C1_SameVersionAsFirstResolution ==
  (Returned /\ ret.active) => ret.version = firstResolved[ret.caller]

\* C1 witness: a caller resolved earlier is served again, after the weights
\* changed so that a fresh derivation would give another version.
C1_Witness ==
  /\ Returned /\ ret.active /\ ret.cached
  /\ ret.version = firstResolved[ret.caller]
  /\ Derived(ret.caller) # ret.version
  /\ ret.version \in DOMAIN metrics /\ metrics[ret.version].impressions >= 2

\* C2: the first resolutions that request handlers began for one caller while
\* it had no assignment all get the same version, which is the cached one.
C2_OneVersionPerPair ==
  \A u \in Callers :
    /\ Cardinality(freshGot[u].versions) <= 1
    /\ freshGot[u].n > 0 => u \in DOMAIN assignments /\ freshGot[u].versions = {assignments[u]}

\* C2 witness: two handlers began a first resolution for the same caller, both
\* have returned, and the weights changed before the second one ran.
C2_Witness ==
  /\ Returned /\ ret.active /\ ret.racer /\ ret.cached
  /\ freshGot[ret.caller].n = 2
  /\ Derived(ret.caller) # ret.version

\* C3: after graduate(v) every getPrompt call returns v, also after later
\* stop() and restart() calls.
C3_GraduationFinal ==
  (Returned /\ graduatedTo # None) => ret.version = graduatedTo

\* C4: a getPrompt call on a stopped experiment returns the control version and
\* changes neither the metrics nor the assignments.
C4_StoppedServesControlOnly ==
  [][ (ret'.caller # None /\ ~isActive) =>
        /\ ~ret'.threw => ret'.version = control
        /\ metrics' = metrics
        /\ assignments' = assignments ]_vars

\* C4 witness: a caller assigned to a variant got control from the stopped experiment.
C4_Witness ==
  /\ Returned /\ ~ret.active /\ ~isActive
  /\ ret.caller \in DOMAIN assignments
  /\ assignments[ret.caller] # control
  /\ ret.version = control

-----------------------------------------------------------------------------
(* Claims about the budget alerts and checkBudget *)

PeriodsOf(status) == DOMAIN status \cap {"daily", "weekly", "monthly"}

\* The (period, threshold) pairs that the statuses of a returned checkBudget
\* show as reached.
ReachedKeys(r) ==
  {k \in Keys : /\ k[1] \in PeriodsOf(r.status)
                /\ Reached(r.status[k[1]], r.limit[k[1]], k[2])}

\* The pair an in-flight call has invoked onAlert for and is waiting on.
AwaitedKey(c) == <<PeriodSeq[calls[c].p], Thresholds[calls[c].t]>>

\* C5: with alerts configured and no resetAlerts call, whatever record and
\* checkBudget calls are made one after the other, the callback is invoked
\* exactly once for each (period, threshold) pair reached and never for a pair
\* that is not reached: no pair has had its callback invoked twice, a callback
\* being awaited is for a pair whose threshold was reached, and a checkBudget
\* that began with alerts configured returns with every pair it found reached
\* invoked exactly once.
C5_OncePerReachedPair ==
  ~seen.reset =>
    /\ \A k \in Keys : firedEpoch[k] <= 1
    /\ \A c \in CallIds :
         calls[c].pc \in {"await_alert", "hung"} =>
           /\ firedEpoch[AwaitedKey(c)] = 1
           /\ Reached(calls[c].status[PeriodSeq[calls[c].p]],
                      calls[c].limit[PeriodSeq[calls[c].p]], Thresholds[calls[c].t])
    /\ (res.outcome = "returned" /\ res.alertsOn) =>
         \A k \in ReachedKeys(res) : firedEpoch[k] = 1

\* C6: with several checkBudget calls in flight and a callback that always
\* completes, the callback is invoked at most once per (period, threshold) pair.
C6_AtMostOncePerPairInFlight == \A k \in Keys : firedEpoch[k] <= 1

\* C7, second half: a checkBudget that starts after the last resetAlerts, with
\* alerts configured and no failed callback, returns with every pair it found
\* reached invoked exactly once since that pair's last reset.
C7_RefiresOnceAfterReset ==
  (res.outcome = "returned" /\ res.alertsOn /\ res.noReset /\ ~seen.failure) =>
    \A k \in ReachedKeys(res) : firedEpoch[k] = 1

\* C8: a step in which onAlert throws or rejects leaves every marker in place and
\* adds none; after it the markers are exactly the pairs whose callback has
\* completed successfully since the pair's last reset.
C8_FailureKeepsDedupState ==
  [][ res'.outcome = "rejected" =>
        /\ alertsSent' = alertsSent
        /\ alertsSent' = delivered' ]_vars

\* A callback fails for a pair while markers of earlier deliveries are present.
C8_Witness ==
  /\ res.outcome = "rejected"
  /\ alertsSent # {}
  /\ res.key \notin alertsSent
  /\ alertsSent = delivered

\* C9: checkBudget always completes with a result: it never rejects and never
\* waits on a callback that does not settle.
C9_AlwaysCompletesWithResult ==
  /\ res.outcome # "rejected"
  /\ \A c \in CallIds : calls[c].pc # "hung"

\* C10: a returned checkBudget has allowed = false exactly when one of the
\* limits that are set (daily, weekly, monthly, and perUser / perProject when the
\* id is supplied) has used >= limit.
C10_AllowedIffNoLimitExceeded ==
  res.outcome = "returned" => (res.allowed = FALSE <=> res.limitExceeded)

-----------------------------------------------------------------------------
(* Claims about the rate limiter *)

\* The stored timestamps of key that lie within the last windowMs.
WithinWindow(key) ==
  {i \in DOMAIN requests[key] : clock - requests[key][i] < limits.windowMs}

\* C11: checkLimit(key) returns allowed = true exactly when fewer than
\* `requests` stored timestamps of the key lie within the last windowMs, and
\* remaining = max(0, requests - that count).
C11_CheckLimitCountsWindow ==
  chk.key # None =>
    LET n == Cardinality(WithinWindow(chk.key))
    IN /\ chk.allowed = (n < limits.requests)
       /\ chk.remaining = IF n >= limits.requests THEN 0 ELSE limits.requests - n

\* The example of the claim: three requests recorded at t = 0 (after which a
\* check at t = 0 is refused); the check at t = 1001 is allowed, remaining 3.
C11_Witness ==
  /\ chk.key = "default"
  /\ requests["default"] = <<0, 0, 0>>
  /\ ~LimitStatus(requests["default"], 0, limits).allowed
  /\ clock = 1001
  /\ chk.allowed /\ chk.remaining = 3

\* C12: right after checkLimit(key) the stored sequence of the key holds no
\* timestamp older than now - windowMs.
C12_CheckEvictsExpired ==
  chk.key # None =>
    \A i \in DOMAIN requests[chk.key] :
      requests[chk.key][i] >= clock - limits.windowMs

\* C13: a caller that checkLimit allowed gets its recordRequest stored whatever
\* other callers recorded since the check: recordRequest does not look at the
\* window again.
C13_RecordAfterCheckAlwaysStored ==
  [][ \A c \in LimiterCallers, k \in LimiterKeys :
        (pending[c] = k /\ recordRequest(c, k)) =>
          requests'[k] = Append(requests[k], clock) ]_vars

\* C13 witness: every recordRequest so far followed an allowed checkLimit of its
\* caller, and more than `requests` timestamps lie inside one window.
C13_Witness ==
  /\ DOMAIN limits # {}
  /\ ~unadmitted
  /\ \E k \in LimiterKeys : Cardinality(WithinWindow(k)) > limits.requests

\* C14: when waitForSlot(key) resolves and no recordRequest(key) was made while
\* it waited, checkLimit(key) reports allowed = true.
C14_SlotFreeAfterWait ==
  (woke.key # None /\ ~woke.recorded) =>
    LimitStatus(requests[woke.key], clock, limits).allowed

-----------------------------------------------------------------------------
(* Claims about bucketing, createExperiment and the metrics *)

RECURSIVE CumulativeWeight(_, _)
CumulativeWeight(vs, i) == IF i = 0 THEN 0 ELSE vs[i].weight + CumulativeWeight(vs, i - 1)

\* The first variant, in declaration order, whose cumulative weight exceeds the
\* hash value; control when there is none.
Bucket(vs, ctl, hashNum) ==
  LET over == {i \in DOMAIN vs : CumulativeWeight(vs, i) > hashNum}
  IN IF over = {} THEN ctl
     ELSE vs[CHOOSE i \in over : \A j \in over : i <= j].version

\* C15: a first resolution assigns the caller the first variant whose
\* cumulative weight exceeds the caller's hash value, and control when no
\* cumulative weight exceeds it.
C15_FirstResolutionBuckets ==
  (ret.caller # None /\ ret.active /\ ~ret.cached) =>
    /\ ret.caller \in DOMAIN assignments
    /\ assignments[ret.caller] = Bucket(variants, control, HashMilli(ret.caller))
    /\ ~ret.threw => ret.version = assignments[ret.caller]

\* C15 witness: u1 (hash 0.985) passes the first variant (0.5) and gets the
\* second, whose own weight 0.5 is below the hash but whose cumulative weight
\* 1.0 exceeds it.
C15_Witness ==
  /\ Returned /\ ret.active /\ ~ret.cached
  /\ ret.caller = "u1"
  /\ Len(variants) = 2
  /\ variants[2].weight < HashMilli("u1")
  /\ ret.version = variants[2].version

\* C16: createExperiment fails when control or a variant version is not
\* registered, and the failed call leaves the stored experiment, or its
\* absence, as it was.
C16_FailedCreateRegistersNothing ==
  [][ \A cfg \in ConfigChoices :
        ( /\ createExperiment(cfg)
          /\ \E v \in {cfg.control} \cup {cfg.variants[i].version : i \in DOMAIN cfg.variants} :
                v \notin DOMAIN prompts ) =>
          /\ ret'.threw
          /\ UNCHANGED <<created, control, variants, metrics, assignments, isActive>> ]_vars

\* C16 witness: a createExperiment call has just failed on a registry that holds
\* an experiment with an assignment, which is still there.
C16_Witness ==
  /\ ret.caller = None /\ ret.threw
  /\ created /\ isActive
  /\ DOMAIN assignments # {}
  /\ \E cfg \in ConfigChoices : ~VersionsExist(prompts, cfg)

\* The effect of a recordConversion(u) step on the metrics.  `tracked` says
\* whether the assigned version has to have a metrics entry for the counter to
\* be incremented.
ConversionEffect(u, tracked) ==
  IF u \notin DOMAIN assignments \/ (tracked /\ assignments[u] \notin DOMAIN metrics)
    THEN metrics' = metrics
    ELSE LET v == assignments[u] IN
         /\ v \in DOMAIN metrics
         /\ DOMAIN metrics' = DOMAIN metrics
         /\ metrics'[v].conversions = metrics[v].conversions + 1
         /\ metrics'[v].conversionRate =
              Frac(metrics[v].conversions + 1, metrics[v].impressions)
         /\ metrics'[v] = [metrics[v] EXCEPT
                             !.conversions = metrics'[v].conversions,
                             !.conversionRate = metrics'[v].conversionRate]
         /\ \A w \in DOMAIN metrics \ {v} : metrics'[w] = metrics[w]

\* C17, as stated: recordConversion(u) changes nothing when u has no
\* assignment; otherwise it increments the conversions of exactly the assigned
\* version, sets its conversionRate to conversions/impressions and leaves every
\* other version's metrics unchanged.
C17_AsStated ==
  [][ \A u \in Callers : recordConversion(u) => ConversionEffect(u, FALSE) ]_vars

\* C17, amended: the same, where a caller whose assigned version has no metrics
\* entry (a version that was neither control nor a variant when the experiment
\* was created) is treated like a caller without assignment: nothing changes.
C17_ConversionOfTrackedVersion ==
  [][ \A u \in Callers : recordConversion(u) => ConversionEffect(u, TRUE) ]_vars

\* C17 witness: one of two versions with impressions has a conversion and the
\* rate 1/impressions, the other is untouched.
C17_Witness ==
  /\ created
  /\ \E v \in DOMAIN metrics, w \in DOMAIN metrics :
       /\ v # w
       /\ metrics[v].impressions >= 1 /\ metrics[w].impressions >= 1
       /\ metrics[v].conversions = 1
       /\ metrics[v].conversionRate = Frac(1, metrics[v].impressions)
       /\ metrics[w].conversions = 0 /\ metrics[w].conversionRate = Zero

\* The incremental mean step avg + (value - avg) / n.
IncrementalMean(avg, value, n) ==
  FracAdd(avg, FracDivInt(FracSub(Frac(value, 1), avg), n))

\* C18: recordMetrics(u, data) changes nothing for a caller without
\* assignment; for a caller with an assignment it updates the running averages
\* of the assigned version by the incremental mean step
\* avg' = avg + (value - avg) / n, with n the number of values reported for the
\* version, this one included, adds cost to totalCost, and leaves the counters
\* and every other version alone.
C18_IncrementalMeanStep ==
  [][ \A u \in Callers, data \in MetricsData :
        recordMetrics(u, data) =>
          IF u \notin DOMAIN assignments
            THEN metrics' = metrics
            ELSE LET v == assignments[u] IN
                 /\ v \in DOMAIN metrics
                 /\ DOMAIN metrics' = DOMAIN metrics
                 /\ LET m == metrics[v]
                        n == reported[v].n + 1
                    IN /\ metrics'[v].totalCost = m.totalCost + data.cost
                       /\ metrics'[v].avgLatencyMs =
                            IncrementalMean(m.avgLatencyMs, data.latencyMs, n)
                       /\ metrics'[v].avgTokens =
                            IncrementalMean(m.avgTokens, data.tokens, n)
                       /\ metrics'[v].impressions = m.impressions
                       /\ metrics'[v].conversions = m.conversions
                       /\ metrics'[v].conversionRate = m.conversionRate
                 /\ \A w \in DOMAIN metrics \ {v} : metrics'[w] = metrics[w] ]_vars

\* The versions with at least `floor` impressions.
Qualifying(floor) == {v \in DOMAIN metrics : metrics[v].impressions >= floor}

\* C19, as stated: getWinner(minImpressions) returns a version with the highest
\* conversion rate among the versions with at least minImpressions impressions,
\* and none when no version meets the floor.
C19_WinnerAtGivenFloor ==
  stat.op = "getWinner" =>
    IF Qualifying(stat.floor) = {} THEN stat.winner = None
    ELSE /\ stat.winner \in Qualifying(stat.floor)
         /\ \A v \in Qualifying(stat.floor) :
              ~FracLess(metrics[stat.winner].conversionRate, metrics[v].conversionRate)

\* The groups isSignificant requires: the control and every variant.
Groups == {control} \cup {variants[i].version : i \in DOMAIN variants}

\* A comparison of the control with a variant whose standard error is zero.
ZeroSeComparison ==
  \E i \in DOMAIN variants :
    LET v == variants[i].version IN
    /\ metrics[control].impressions > 0 /\ metrics[v].impressions > 0
    /\ SeSquared(metrics[control].conversionRate, metrics[control].impressions,
                 metrics[v].conversionRate, metrics[v].impressions).n = 0

\* C20, as stated: isSignificant(minImpressions) returns false whenever the
\* control or any variant has fewer than minImpressions impressions, and
\* whenever the standard error of a comparison is zero.
C20_FalseWhenAnyGroupShortOrSeZero ==
  stat.op = "isSignificant" =>
    /\ (\E v \in Groups : metrics[v].impressions < stat.floor) => ~stat.significant
    /\ ((\A v \in Groups : metrics[v].impressions >= stat.floor) /\ ZeroSeComparison)
          => ~stat.significant

\* The metrics with the entries of versions a and b exchanged.
Mirrored(m, a, b) ==
  [v \in DOMAIN m |-> IF v = a THEN m[b] ELSE IF v = b THEN m[a] ELSE m[v]]

\* C21: for an experiment with a control and one variant, isSignificant gives
\* the same boolean when the two exchange their impressions and conversions.
C21_SignificanceSymmetric ==
  (stat.op = "isSignificant" /\ Len(variants) = 1) =>
    stat.significant =
      Significant(Mirrored(metrics, control, variants[1].version),
                  control, variants, stat.floor)

\* C21 witness: a significant result for a pair with different sample sizes
\* and rates.
C21_Witness ==
  /\ stat.op = "isSignificant" /\ Len(variants) = 1 /\ stat.significant
  /\ metrics[control].impressions # metrics[variants[1].version].impressions
  /\ metrics[control].conversionRate # metrics[variants[1].version].conversionRate

\* The cost of a usage event at the rates of the default model gpt-3.5-turbo.
DefaultPriced(params) ==
  (params.inputTokens * MODEL_PRICING["gpt35turbo"].input
   + params.outputTokens * MODEL_PRICING["gpt35turbo"].output) \div 1000

\* The effect of record(params) for a model for which `missing` holds: one
\* record is appended, priced at the default rates, and a warning is signalled.
RecordedAtDefault(params) ==
  /\ Len(records') = Len(records) + 1
  /\ SubSeq(records', 1, Len(records)) = records
  /\ records'[Len(records')].model = params.model
  /\ records'[Len(records')].cost = DefaultPriced(params)
  /\ warnings' = warnings + 1

\* C22, as stated: record() for a model that is not in the price table appends
\* exactly one record priced at the rates of the default model and signals a
\* warning.
C22_UnpricedModelRecordedAtDefault ==
  [][ \A u \in LedgerUsageChoices :
        (record(u) /\ ModelKey(u.model) = None) => RecordedAtDefault(u) ]_vars

\* The positions of the records older than a cutoff, and a sequence without the
\* elements at the positions in `gone`.
OlderThan(recs, cutoff) == {i \in DOMAIN recs : recs[i].timestamp < cutoff}

RECURSIVE Without(_, _, _)
Without(recs, gone, i) ==
  IF i > Len(recs) THEN <<>>
  ELSE IF i \in gone THEN Without(recs, gone, i + 1)
  ELSE <<recs[i]>> \o Without(recs, gone, i + 1)

\* The sum of the costs of the records at a set of positions.
RECURSIVE CostOf(_, _)
CostOf(recs, idx) ==
  IF idx = {} THEN 0
  ELSE LET i == CHOOSE j \in idx : TRUE IN Plus(recs[i].cost, CostOf(recs, idx \ {i}))

\* The positions of the records an aggregate read from startDate on with the
\* given filters covers.
CoveredBy(recs, startDate, userId, projectId) ==
  {i \in DOMAIN recs : /\ recs[i].timestamp >= startDate
                       /\ userId # None => recs[i].userId = userId
                       /\ projectId # None => recs[i].projectId = projectId}

\* C23: the ledger is append-only.  record() appends exactly one record and
\* changes no existing one; getBreakdown and getCurrentPeriodCost count every
\* record their range covers; records leave the ledger only through
\* cleanup(cutoff), which removes exactly the records older than the cutoff and
\* returns their number.
C23_LedgerAppendOnly ==
  [][ /\ (\E u \in LedgerUsageChoices : record(u)) =>
           /\ Len(records') = Len(records) + 1
           /\ SubSeq(records', 1, Len(records)) = records
      /\ \A d \in DateChoices : cleanup(d) =>
           /\ records' = Without(records, OlderThan(records, d), 1)
           /\ led'.removed = Cardinality(OlderThan(records, d))
      /\ \A d \in DateChoices, f \in FilterChoices : readBreakdown(d, f) =>
           led'.total = CostOf(records, CoveredBy(records, d, f.userId, f.projectId))
      /\ \A t \in {"day", "week", "month"} : readCurrentPeriodCost(t) =>
           led'.total = CostOf(records, CoveredBy(records, PeriodStart(t, now), None, None))
      /\ records' # records =>
           \/ \E u \in LedgerUsageChoices : record(u)
           \/ \E d \in DateChoices : cleanup(d)
    ]_vars

\* C23 witness: a cleanup that removed one record and kept a later one.
C23_Witness ==
  /\ led.op = "cleanup" /\ led.removed = 1
  /\ Len(records) = 1 /\ records[1].timestamp >= led.startDate

\* The placeholders of a template, and the keys that are supplied a value.
PlaceholdersOf(content) == {content[i].s : i \in {j \in DOMAIN content : content[j].ph}}
Supplied(variables) == {variables[i].key : i \in DOMAIN variables}

\* C24, as stated: render fails with a not-found error for an unregistered
\* version, fails with a missing-variable error when a placeholder of the
\* template has no supplied value, and otherwise returns the template with
\* every placeholder replaced; a failed render changes no registry state.
C24_RenderContract ==
  [][ \A v \in Versions, vs \in RenderVarChoices : Render(v, vs) =>
        /\ prompts' = prompts
        /\ IF ~Registered(prompts, v)
             THEN ~rnd'.ok /\ rnd'.error = "NotFound"
             ELSE IF PlaceholdersOf(prompts[v]) \subseteq Supplied(vs)
               THEN rnd'.ok /\ \A i \in DOMAIN rnd'.content : ~rnd'.content[i].ph
               ELSE ~rnd'.ok /\ rnd'.error = "MissingVariables"
    ]_vars

\* C25, as stated: a getPrompt call of the running experiment that fails caches
\* no assignment for a caller that had none, and in every reachable state each
\* cached assignment points to a version with at least one impression.
C25_FailedGetPromptLeavesNoTrace ==
  /\ (ret.caller # None /\ ret.active /\ ret.threw /\ ~ret.cached) =>
       ret.caller \notin DOMAIN assignments
  /\ \A u \in DOMAIN assignments :
       /\ assignments[u] \in DOMAIN metrics
       /\ metrics[assignments[u]].impressions >= 1

\* C26, as stated: in every reachable state each version with impressions > 0
\* has conversionRate = conversions / impressions.
C26_RateIsConversionsOverImpressions ==
  \A v \in DOMAIN metrics :
    metrics[v].impressions > 0 =>
      metrics[v].conversionRate = Frac(metrics[v].conversions, metrics[v].impressions)

\* C27, as stated: in every reachable state conversions <= impressions for
\* every version.
C27_ConversionsAtMostImpressions ==
  \A v \in DOMAIN metrics : metrics[v].conversions <= metrics[v].impressions

\* C28, as stated: the running averages of a version equal the arithmetic mean
\* of the values reported for it so far.
C28_AverageIsMeanOfReports ==
  \A v \in DOMAIN metrics :
    reported[v].n >= 1 =>
      /\ metrics[v].avgLatencyMs = Frac(reported[v].latencyMs, reported[v].n)
      /\ metrics[v].avgTokens = Frac(reported[v].tokens, reported[v].n)

\* The variants declared in the opposite order.
Reversed(vs) == [i \in DOMAIN vs |-> vs[Len(vs) + 1 - i]]

\* C29, as stated: with two or more variants the result of
\* isSignificant(minImpressions) is the same for the variants declared in
\* another order.
C29_SignificanceIgnoresDeclarationOrder ==
  (stat.op = "isSignificant" /\ Len(variants) >= 2) =>
    stat.significant = Significant(metrics, control, Reversed(variants), stat.floor)

\* The timestamps of a key inside the window of length windowMs that begins
\* at the timestamp at position i (the end of the window is not part of it).
InWindowFrom(key, i) ==
  {j \in DOMAIN requests[key] :
     /\ requests[key][j] >= requests[key][i]
     /\ requests[key][j] < requests[key][i] + limits.windowMs}

\* C30: when every recordRequest(key) of the one caller directly follows a
\* checkLimit(key) of its own that returned allowed, no window of length
\* windowMs holds more than `requests` timestamps of a key.  A window is an
\* interval without its end point: two timestamps exactly windowMs apart are
\* not in one window, as checkLimit counts them.
C30_SoloCallerStaysWithinLimit ==
  (DOMAIN limits # {} /\ ~unadmitted) =>
    \A k \in LimiterKeys : \A i \in DOMAIN requests[k] :
      Cardinality(InWindowFrom(k, i)) <= limits.requests

\* C30 witness: the caller has recorded `requests` timestamps at one instant
\* and, admitted again exactly windowMs later, one more.
C30_Witness ==
  /\ DOMAIN limits # {} /\ ~unadmitted
  /\ \E k \in LimiterKeys :
       /\ Len(requests[k]) = limits.requests + 1
       /\ requests[k][1] = requests[k][limits.requests]
       /\ requests[k][limits.requests + 1] = requests[k][1] + limits.windowMs

====
